---------------------------- MODULE Spec2Model ----------------------------
(***************************************************************************)
(* Gasless NFT minter: the transaction lifecycle orchestrator.             *)
(*                                                                         *)
(*   SpecPoll  CircleService.waitForTransaction, the status poller         *)
(*             (backend/src/services, second half of userService.ts).      *)
(*   SpecMint  NFTService.mintNFT, POST /login and POST /wallet/create     *)
(*             over the in-memory UserService (deleteUser included), with  *)
(*             the wallet provider, the pinning service,                   *)
(*             the sponsorship API and the chain RPC as the environment.   *)
(*             Two source trees implement it: tree "A" is the NFTService   *)
(*             that always mints on ETH-SEPOLIA with its CircleService     *)
(*             (SCA wallets), tree "B" is backend2/src/services.           *)
(*             Every await is a point where another request may run.       *)
(*   SpecChain, SpecResubmit  BlockchainService.mintNFT and batchMintNFTs  *)
(*             with the poller, one call or several in a row.              *)
(*   SpecStages  either service, one request at a time.                    *)
(*   SpecPollCancel  the poller while the client may disconnect.           *)
(*   SpecBatch  POST /batch-mint.   SpecLimiter  rateLimitExpensive.       *)
(*   SpecContract  contract GaslessNFT (backend/fresh-circle-setup.js).    *)
(*                                                                         *)
(* Strings the code builds and tests (error messages) are sequences of     *)
(* word tokens, punctuation being a token of its own; String.includes is   *)
(* the contiguous-subsequence test on them.                                *)
(***************************************************************************)
EXTENDS Integers, Sequences, FiniteSets, TLC

(***************************************************************************)
(* Bounds of the model.                                                    *)
(***************************************************************************)
\* largest maxWaitTime a caller passes (clock ticks)
MaxWait == 3
\* largest pollInterval a caller passes (clock ticks)
MaxPoll == 2
\* longest time one status query takes (clock ticks)
MaxQueryTime == 1
\* how late a setTimeout callback may fire (clock ticks)
MaxLate == 1
\* status queries one call may issue before the model stops following it
MaxQueries == 3

(***************************************************************************)
(* Circle transaction states (constants.ts, CIRCLE_TRANSACTION_STATES).    *)
(***************************************************************************)
CIRCLE_TRANSACTION_STATES ==
    {"INITIATED", "PENDING_RISK_SCREENING", "DENIED", "QUEUED", "SENT",
     "CONFIRMED", "FAILED", "CANCELLED"}

(***************************************************************************)
(* Strings as token sequences.                                             *)
(***************************************************************************)
\* String.prototype.includes: needle occurs in hay as a contiguous run
Includes(hay, needle) ==
    \E i \in 1..(Len(hay) + 1) :
        /\ i + Len(needle) - 1 <= Len(hay)
        /\ SubSeq(hay, i, i + Len(needle) - 1) = needle

\* a || b on strings: the empty (or absent) string is falsy
OrElse(a, b) == IF a # <<>> THEN a ELSE b

Last(s) == s[Len(s)]

(***************************************************************************)
(* Inputs of the status endpoint.                                          *)
(***************************************************************************)
\* data.errorReason of a FAILED transaction: absent, or a reason
ErrorReasons == {<<>>, <<"execution", "reverted">>}

\* data.txHash of a status response: 0 is undefined
TxHashes == {0, 1}

\* what a rejected status request carries: response.data.message (absent
\* when the request never got a response) and the HTTP client's message
QueryFailures ==
    { [providerMessage |-> <<>>,
       clientMessage   |-> <<"Network", "Error">>],
      [providerMessage |-> <<"Resource", "not", "found">>,
       clientMessage   |-> <<"Request", "failed", "with", "status", "code", "404">>],
      [providerMessage |-> <<"Transaction", "failed", "risk", "screening">>,
       clientMessage   |-> <<"Request", "failed", "with", "status", "code", "400">>] }

VARIABLES
    wpc,           \* where waitForTransaction is: idle, test, query, sleep, done
    maxWaitTime,   \* its argument
    pollInterval,  \* its argument
    now,           \* Date.now()
    startTime,     \* its local startTime
    obs,           \* what each status query gave: a state, or "ERROR"
    queries,       \* status queries issued
    sleeps,        \* sleeps started
    result         \* how the call ended

pollVars == <<wpc, maxWaitTime, pollInterval, now, startTime, obs, queries,
              sleeps, result>>

VARIABLES
    env,           \* the deployment: source tree, NODE_ENV, pinning credentials
    userRecs,      \* the User objects ever created, by id
    users,         \* UserService.users: the ids it holds
    usersByEmail,  \* UserService.usersByEmail: email -> id, 0 when absent
    wallets,       \* how many wallets the provider has created
    run,           \* the requests being served, one per slot
    calls,         \* requests started so far
    createCalls,   \* per email: create-wallet requests sent to the provider
    createOK,      \* per email: create-wallet requests the provider answered
                   \* with a wallet
    attachedIds,   \* per email: the wallet ids ever written to the user
    sequential     \* per email: so far only mintNFT calls, none overlapping

mintVars == <<env, userRecs, users, usersByEmail, wallets, run, calls,
              createCalls, createOK, attachedIds, sequential>>

VARIABLES
    bc,            \* the BlockchainService.mintNFT call being served
    cancelledAt,   \* when the client of the polling request went away, -1
                   \* while it has not
    batch,         \* the POST /batch-mint request being served
    nft,           \* the GaslessNFT contract
    sent,          \* the BlockchainService calls begun and the
                   \* create-transaction requests they sent to the provider
    limiter        \* a rateLimitExpensive middleware and the clock it reads

extVars == <<bc, cancelledAt, batch, nft, sent, limiter>>

\* extVars but bc, but batch, but nft, but limiter
notChain == <<cancelledAt, batch, nft, sent, limiter>>
notChainSent == <<cancelledAt, batch, nft, limiter>>
notBatch == <<bc, cancelledAt, nft, sent, limiter>>
notContract == <<bc, cancelledAt, batch, sent, limiter>>
notLimiter == <<bc, cancelledAt, batch, nft, sent>>

vars == <<pollVars, mintVars, extVars>>

(***************************************************************************)
(* The mint workflow: its inputs and its state at construction.            *)
(***************************************************************************)
\* request slots: two requests can be in progress at once
Runs == {1, 2}

Emails == {"a@x.com", "b@x.com"}

\* the blockchain names a request, or a provider's wallet, can carry
RequestChains == {"BASE-SEPOLIA", "MATIC-AMOY", "ETH-SEPOLIA"}
WalletChains == {"ETH-SEPOLIA", "BASE-SEPOLIA"}

\* deployments: tree A (NODE_ENV and the pinning credentials matter to it)
\* and tree B (neither is read on the paths followed)
Envs == {[tree |-> "A", nodeEnv |-> "production", pinata |-> TRUE],
         [tree |-> "A", nodeEnv |-> "development", pinata |-> FALSE],
         [tree |-> "B", nodeEnv |-> "production", pinata |-> FALSE]}

NoTx == [accepted |-> FALSE, transactionId |-> "", hash |-> "", state |-> "",
         reported |-> ""]

NoMintResult == [transactionHash |-> "", nftId |-> "", walletAddress |-> 0,
                 gasSponsored |-> FALSE]

IdleRun ==
    [pc |-> "idle", kind |-> "none", email |-> "", chain |-> "", pay |-> FALSE,
     user |-> 0, uri |-> "", txWallet |-> 0, txRecipient |-> 0, tx |-> NoTx,
     outcome |-> "none", failStage |-> "", message |-> <<>>,
     res |-> NoMintResult,
     calledCreate |-> FALSE, createFailed |-> FALSE, attached |-> FALSE,
     uploadStarted |-> FALSE, balanceChecked |-> FALSE, submitted |-> FALSE,
     rejected |-> FALSE, balance |-> [kind |-> "", amount |-> 0],
     blockchains |-> <<>>, metadata |-> ""]

\* new UserService(), no request yet, in deployment e
MintAtRest(e) ==
    /\ env = e
    /\ userRecs = <<>>
    /\ users = {}
    /\ usersByEmail = [m \in Emails |-> 0]
    /\ wallets = 0
    /\ run = [r \in Runs |-> IdleRun]
    /\ calls = 0
    /\ createCalls = [m \in Emails |-> 0]
    /\ createOK = [m \in Emails |-> 0]
    /\ attachedIds = [m \in Emails |-> {}]
    /\ sequential = [m \in Emails |-> TRUE]

PollOnly == [tree |-> "A", nodeEnv |-> "production", pinata |-> FALSE]

\* recipients in a batchMintNFTs call, tokens the contract has left
MaxBatch == 2

\* an error object: its class and its message
NoError == [type |-> "", message |-> <<>>]

\* BlockchainService.mintNFT not called
IdleChainMint ==
    [pc |-> "idle", walletId |-> FALSE, recipient |-> "", tokenURI |-> FALSE,
     network |-> "", outcome |-> "none", failStage |-> "", cause |-> NoError,
     error |-> NoError, estimated |-> FALSE, submitted |-> FALSE,
     polled |-> FALSE, extracted |-> FALSE, txHash |-> 0, tokenId |-> "",
     success |-> FALSE, kind |-> "", count |-> 0, gasSaved |-> "",
     receipt |-> [kind |-> "", logs |-> <<>>], tokenIds |-> <<>>,
     pollResult |-> [kind |-> "none"]]

\* POST /batch-mint not called
IdleBatch ==
    [pc |-> "idle", email |-> "", chain |-> "", nfts |-> <<>>, n |-> 0,
     pay |-> FALSE, i |-> 0,
     attempts |-> <<>>,
     pays |-> <<>>, results |-> <<>>, errors |-> <<>>, delays |-> 0,
     elapsed |-> 0, starts |-> <<>>, ends |-> <<>>, response |-> [status |-> 0]]

\* no call of the contract yet
NoContractCall ==
    [op |-> "none", authorized |-> FALSE, k |-> 0, uris |-> 0, before |-> 0,
     reverted |-> FALSE, reason |-> ""]

\* GaslessNFT before its deployment: _tokenIdCounter = 1, nothing minted,
\* no authorized minter
NoContract ==
    [deployed |-> FALSE, maxSupply |-> 0, tokenIdCounter |-> 1, owners |-> <<>>,
     tokenMetadata |-> <<>>, authorizedMinters |-> {}, last |-> NoContractCall]

\* no call of BlockchainService yet, no request sent
NothingSent == [calls |-> 0, requests |-> <<>>]

\* keys of the rate limiter: a user id, an IP address
Keys == {"user-1", "10.0.0.1"}

\* rateLimitExpensive not called: no middleware yet. admitted and last are
\* the history of the requests passed on and the last request handled
NoLimiter ==
    [made |-> FALSE, maxRequests |-> 0, windowMs |-> 0, clock |-> 0, hits |-> 0,
     requests |-> <<>>, admitted |-> [k \in Keys |-> <<>>],
     last |-> [key |-> "", status |-> 0, before |-> 0]]

\* no BlockchainService call, no client gone, no batch, no contract
ExtAtRest ==
    /\ bc = IdleChainMint
    /\ cancelledAt = -1
    /\ batch = IdleBatch
    /\ nft = NoContract
    /\ sent = NothingSent
    /\ limiter = NoLimiter

NoResult == [kind |-> "none"]

(***************************************************************************)
(* The messages of the three throw statements.                             *)
(***************************************************************************)
\* userService.ts 499-501
FailedMessage(errorReason) ==
    <<"Transaction", "failed", ":">> \o OrElse(errorReason, <<"Unknown", "error">>)

\* userService.ts 468-471, getTransactionStatus's catch
StatusErrorMessage(f) ==
    <<"Get", "transaction", "status", "failed", ":">>
        \o OrElse(f.providerMessage, f.clientMessage)

\* userService.ts 517
TimeoutMessage(transactionId, maxWait) ==
    <<"Transaction", transactionId, "confirmation", "timeout", "after",
      ToString(maxWait), "ms">>

IsConfirmedOtherWord(state) == state = "COMPLETE"

\* userService.ts 489
IsConfirmed(state) == state = "CONFIRMED"

\* userService.ts 497
IsFailed(state) == state = "FAILED"

IsTransactionFailedLowerCase(message) ==
    Includes(message, <<"transaction", "failed">>)

\* userService.ts 508: the catch block's test for rethrowing
IsTransactionFailed(message) == Includes(message, <<"Transaction", "failed">>)

WithinBudgetInclusive(t, start, maxWait) == t - start <= maxWait

\* userService.ts 485: the loop condition
WithinBudget(t, start, maxWait) == t - start < maxWait

InitPoll ==
    /\ wpc = "idle"
    /\ maxWaitTime = 0
    /\ pollInterval = 0
    /\ now = 0
    /\ startTime = 0
    /\ obs = <<>>
    /\ queries = 0
    /\ sleeps = 0
    /\ result = NoResult

\* the call: startTime = Date.now()
WaitForTransaction(m, p) ==
    /\ wpc = "idle"
    /\ maxWaitTime' = m
    /\ pollInterval' = p
    /\ startTime' = now
    /\ wpc' = "test"
    /\ UNCHANGED <<now, obs, queries, sleeps, result>>
    /\ UNCHANGED <<mintVars, extVars>>

\* the loop condition holds: getTransactionStatus is called
LoopEnter ==
    /\ wpc = "test"
    /\ WithinBudget(now, startTime, maxWaitTime)
    /\ queries < MaxQueries
    /\ queries' = queries + 1
    /\ wpc' = "query"
    /\ UNCHANGED <<maxWaitTime, pollInterval, now, startTime, obs, sleeps, result>>
    /\ UNCHANGED <<mintVars, extVars>>

\* the loop condition fails: the throw after the loop
LoopTimeout ==
    /\ wpc = "test"
    /\ ~WithinBudget(now, startTime, maxWaitTime)
    /\ result' = [kind |-> "threw", at |-> "timeout",
                  message |-> TimeoutMessage("tx", maxWaitTime)]
    /\ wpc' = "done"
    /\ UNCHANGED <<maxWaitTime, pollInterval, now, startTime, obs, queries, sleeps>>
    /\ UNCHANGED <<mintVars, extVars>>

\* the status request resolves with state s after d ticks; the rest of the
\* try block, and the catch block when it throws, run without yielding
StatusReturns(s, hash, reason, d) ==
    /\ wpc = "query"
    /\ now' = now + d
    /\ obs' = Append(obs, s)
    /\ IF IsConfirmed(s)
         THEN /\ result' = [kind |-> "returned", state |-> s, txHash |-> hash]
              /\ wpc' = "done"
              /\ sleeps' = sleeps
         ELSE IF IsFailed(s) /\ IsTransactionFailed(FailedMessage(reason))
         THEN /\ result' = [kind |-> "threw", at |-> "failed",
                            message |-> FailedMessage(reason)]
              /\ wpc' = "done"
              /\ sleeps' = sleeps
         ELSE /\ result' = result
              /\ wpc' = "sleep"
              /\ sleeps' = sleeps + 1
    /\ UNCHANGED <<maxWaitTime, pollInterval, startTime, queries>>
    /\ UNCHANGED <<mintVars, extVars>>

\* the status request rejects after d ticks: getTransactionStatus throws a
\* CircleApiError, which the catch block of the loop receives
StatusThrows(f, d) ==
    /\ wpc = "query"
    /\ now' = now + d
    /\ obs' = Append(obs, "ERROR")
    /\ IF IsTransactionFailed(StatusErrorMessage(f))
         THEN /\ result' = [kind |-> "threw", at |-> "query",
                            message |-> StatusErrorMessage(f)]
              /\ wpc' = "done"
              /\ sleeps' = sleeps
         ELSE /\ result' = result
              /\ wpc' = "sleep"
              /\ sleeps' = sleeps + 1
    /\ UNCHANGED <<maxWaitTime, pollInterval, startTime, queries>>
    /\ UNCHANGED <<mintVars, extVars>>

\* setTimeout(resolve, pollInterval) fires, late ticks after it was due
SleepDone(late) ==
    /\ wpc = "sleep"
    /\ now' = now + pollInterval + late
    /\ wpc' = "test"
    /\ UNCHANGED <<maxWaitTime, pollInterval, startTime, obs, queries, sleeps, result>>
    /\ UNCHANGED <<mintVars, extVars>>

NextPoll ==
    \/ \E m \in 0..MaxWait, p \in 0..MaxPoll : WaitForTransaction(m, p)
    \/ LoopEnter
    \/ LoopTimeout
    \/ \E s \in CIRCLE_TRANSACTION_STATES, h \in TxHashes, r \in ErrorReasons,
          d \in 0..MaxQueryTime : StatusReturns(s, h, r, d)
    \/ \E f \in QueryFailures, d \in 0..MaxQueryTime : StatusThrows(f, d)
    \/ \E late \in 0..MaxLate : SleepDone(late)

\* the poller alone: no mint request is served
InitPollOnly == InitPoll /\ MintAtRest(PollOnly) /\ ExtAtRest

SpecPoll == InitPollOnly /\ [][NextPoll]_vars

(***************************************************************************)
(* Claims about the poller, checked under SpecPoll.                        *)
(***************************************************************************)
IsTimeoutError(r) ==
    /\ r.kind = "threw"
    /\ Includes(r.message, <<"confirmation", "timeout">>)

IsFailedError(r) ==
    /\ r.kind = "threw"
    /\ SubSeq(r.message, 1, 3) = <<"Transaction", "failed", ":">>

\* the observation that ended the call was the last thing the call did:
\* every query has been answered and every answer but the last was slept on
NothingAfterLastObservation ==
    /\ wpc = "done"
    /\ queries = Len(obs)
    /\ sleeps = Len(obs) - 1

\* C1: as soon as one status query reports CONFIRMED, waitForTransaction
\* returns that status; it issues no further query and starts no further
\* sleep, whatever states or errors the earlier queries gave, in any order.
C1_ConfirmedReturnsAtOnce ==
    \A i \in 1..Len(obs) :
        obs[i] = "CONFIRMED" =>
            /\ i = Len(obs)
            /\ NothingAfterLastObservation
            /\ result.kind = "returned"
            /\ result.state = "CONFIRMED"

C1_Witness ==
    /\ obs = <<"SENT", "SENT", "CONFIRMED">>
    /\ result.kind = "returned"

\* C2: when a status query reports FAILED, waitForTransaction throws the
\* "Transaction failed" error at once: no sleep and no query follows the
\* observation, and the error is never the timeout error.
C2_FailedThrowsAtOnce ==
    \A i \in 1..Len(obs) :
        obs[i] = "FAILED" =>
            /\ i = Len(obs)
            /\ NothingAfterLastObservation
            /\ IsFailedError(result)
            /\ ~IsTimeoutError(result)

C2_Witness ==
    /\ obs = <<"QUEUED", "FAILED">>
    /\ IsFailedError(result)
    /\ now - startTime < maxWaitTime

\* C3 (as claimed): every error thrown by the status query is swallowed: it
\* is followed by a sleep, and the call never ends on it other than by the
\* timeout of a later loop test.
C3_QueryErrorIsSwallowed ==
    \A i \in 1..Len(obs) :
        obs[i] = "ERROR" =>
            /\ sleeps >= i
            /\ (wpc = "done" /\ i = Len(obs) => IsTimeoutError(result))

\* C4 (as claimed): a call in which no status query reported CONFIRMED or
\* FAILED ends only by the timeout error, and not before maxWaitTime has
\* elapsed since the call started.
C4_OnlyTimeoutEndsUndecidedPoll ==
    (/\ wpc = "done"
     /\ \A i \in 1..Len(obs) : obs[i] \notin {"CONFIRMED", "FAILED"})
        => /\ IsTimeoutError(result)
           /\ now - startTime >= maxWaitTime

\* C5 (as claimed): DENIED and CANCELLED end the poll like CONFIRMED and
\* FAILED: no query and no sleep follows the observation of any of the four.
C5_FourTerminalStates ==
    \A i \in 1..Len(obs) :
        obs[i] \in {"CONFIRMED", "FAILED", "DENIED", "CANCELLED"} =>
            /\ i = Len(obs)
            /\ NothingAfterLastObservation

(***************************************************************************)
(* NFTService.mintNFT and POST /login.                                     *)
(***************************************************************************)
\* requests the model follows
MaxCalls == 2

\* deleteUser calls the model follows
MaxDeletes == 1

\* config.usdc
METADATA_STORAGE_COST == 1
USDC_DECIMALS == 6

Pow10(n) == IF n = 0 THEN 1 ELSE
            IF n = 1 THEN 10 ELSE
            IF n = 2 THEN 100 ELSE
            IF n = 3 THEN 1000 ELSE
            IF n = 4 THEN 10000 ELSE
            IF n = 5 THEN 100000 ELSE 1000000

\* handleUSDCPayment: parseFloat(metadataStorageCost) * Math.pow(10, decimals)
PaymentAmount == METADATA_STORAGE_COST * Pow10(USDC_DECIMALS)

\* what a failed request to a provider says
ProviderErrorMessage == <<"socket", "hang", "up">>

\* mapToInternalBlockchain
MapToInternalBlockchain(b) ==
    CASE b \in {"ETH-SEPOLIA", "ETH"} -> "ethereum"
      [] b \in {"BASE-SEPOLIA", "BASE"} -> "base"
      [] b \in {"MATIC-AMOY", "MATIC"} -> "polygon"
      [] OTHER -> IF env.tree = "A" THEN "ethereum" ELSE "base"

\* the keys of config.blockchains
ConfiguredBlockchains ==
    IF env.tree = "A" THEN {"ethereum", "base"} ELSE {"base", "polygon"}

\* the chain mintNFT works on: tree A always mints on ETH-SEPOLIA
MintChain(requested) == IF env.tree = "A" THEN "ETH-SEPOLIA" ELSE requested

\* if (!user.walletId || !user.walletAddress)
NeedsWallet(u) == u.walletId = 0 \/ u.walletAddress = 0

\* wallets.find(w => w.blockchain === chain): its index, 0 when none
FindWallet(ws, chain) ==
    IF \E i \in 1..Len(ws) : ws[i].blockchain = chain
      THEN CHOOSE i \in 1..Len(ws) :
               /\ ws[i].blockchain = chain
               /\ \A j \in 1..(i - 1) : ws[j].blockchain # chain
      ELSE 0

RaiseAndGoOn(rr, stage, inner) ==
    [rr EXCEPT !.outcome = "raised", !.failStage = stage,
               !.message = <<"Failed", "to", "mint", "NFT", ":">> \o inner]

\* the catch block of mintNFT
Raise(rr, stage, inner) ==
    [rr EXCEPT !.pc = "done", !.outcome = "raised", !.failStage = stage,
               !.message = <<"Failed", "to", "mint", "NFT", ":">> \o inner]

\* createWallet's catch block
CreateWalletError(inner) ==
    IF env.tree = "A"
      THEN <<"Circle", "API", ":", "Failed", "to", "create", "SCA", "wallet", "-">> \o inner
      ELSE <<"Circle", "API", ":", "Failed", "to", "create", "wallet", "-">> \o inner

\* mintNFT, no wallet for the chain among those created
NoWalletForChain(chain) ==
    IF env.tree = "A"
      THEN <<"Failed", "to", "create", "SCA", "wallet", "for", chain>>
      ELSE <<"Failed", "to", "create", "wallet", "for", chain>>

\* uploadMetadataToIPFS is called
EnterUpload(rr) == [rr EXCEPT !.pc = "upload", !.uploadStarted = TRUE]

\* executeGaslessTransaction is called with user.walletId and, as the
\* recipient parameter, user.walletAddress
EnterSubmit(rr) ==
    [rr EXCEPT !.pc = "submit", !.submitted = TRUE,
               !.txWallet = userRecs[rr.user].walletId,
               !.txRecipient = userRecs[rr.user].walletAddress]

\* POST /login answers
LoginDone(rr) == [rr EXCEPT !.pc = "done", !.outcome = "returned"]

\* POST /wallet/create answers with this message
RouteDone(rr, msg) == [rr EXCEPT !.pc = "done", !.outcome = "returned", !.message = msg]

\* POST /wallet/create: asyncHandler passes the error on as it is
RouteRaise(rr, inner) ==
    [rr EXCEPT !.pc = "done", !.outcome = "raised", !.failStage = "wallet",
               !.message = inner]

\* circleService.createWallet is called
EnterCreateWallet(rr) == [rr EXCEPT !.pc = "createWallet", !.calledCreate = TRUE]

\* the wallet test of mintNFT and of POST /login, and the one of
\* POST /wallet/create (if (user.walletId): ask the provider for that
\* wallet), on the user object as it is now
WalletCheck(r, rr) ==
    IF rr.kind = "wallet" /\ userRecs[rr.user].walletId # 0
      THEN /\ run' = [run EXCEPT ![r] = [rr EXCEPT !.pc = "getWallet"]]
           /\ createCalls' = createCalls
    ELSE IF rr.kind = "wallet" \/ NeedsWallet(userRecs[rr.user])
      THEN /\ run' = [run EXCEPT ![r] = EnterCreateWallet(rr)]
           /\ createCalls' = [createCalls EXCEPT ![rr.email] = @ + 1]
      ELSE /\ run' = [run EXCEPT ![r] = IF rr.kind = "mint" THEN EnterUpload(rr)
                                                             ELSE LoginDone(rr)]
           /\ createCalls' = createCalls

Active(r) == run[r].pc \notin {"idle", "done"}

Start(r, kind, e) ==
    /\ ~Active(r)
    /\ \A o \in Runs : o < r => Active(o)
    /\ calls < MaxCalls
    /\ calls' = calls + 1
    /\ sequential' = [sequential EXCEPT ![e] =
                         /\ @
                         /\ kind = "mint"
                         /\ ~\E o \in Runs \ {r} : Active(o) /\ run[o].email = e]
    /\ UNCHANGED <<env, userRecs, users, usersByEmail, wallets, createCalls,
                   createOK, attachedIds>>
    /\ UNCHANGED <<pollVars, extVars>>

\* nftMetadata of a mint request: a metadata object, or null (an item of
\* POST /batch-mint, whose items are not validated)
Metadata == {"object", "null"}

\* the TypeError of metadata.name for a null metadata
NullNameError ==
    <<"Cannot", "read", "properties", "of", "null", "(", "reading", "'name'", ")">>

\* nftService.mintNFT({email, nftMetadata, blockchain, payWithUSDC}) up to
\* its first await: the run it starts. Tree A logs nftMetadata.name before
\* its first stage.
MintNFTCalled(e, metadata, b, pay) ==
    LET chain == MintChain(b)
        internal == MapToInternalBlockchain(chain)
        rr == [IdleRun EXCEPT !.kind = "mint", !.email = e, !.chain = chain,
                              !.pay = pay, !.metadata = metadata]
    IN IF internal \notin ConfiguredBlockchains
         THEN Raise(rr, "config", <<"Unsupported", "blockchain", ":", internal>>)
         ELSE IF env.tree = "A" /\ metadata = "null"
         THEN Raise(rr, "request", NullNameError)
         ELSE [rr EXCEPT !.pc = "getUser", !.user = usersByEmail[e]]

\* POST /mint: nftService.mintNFT is called for the request, whose
\* nftMetadata the route has validated (name, description, image)
StartMint(r, e, b, pay) ==
    /\ Start(r, "mint", e)
    /\ run' = [run EXCEPT ![r] = MintNFTCalled(e, "object", b, pay)]

\* POST /login {email} up to its first await
StartLogin(r, e) ==
    /\ Start(r, "login", e)
    /\ run' = [run EXCEPT ![r] =
                 [IdleRun EXCEPT !.kind = "login", !.email = e, !.pc = "getUser",
                                 !.user = usersByEmail[e]]]

\* req.body.blockchains of POST /wallet/create: absent (the default), or a
\* list of the request's own
RouteBlockchains == {<<"ETH", "MATIC">>, <<"MATIC">>, <<>>}

\* POST /wallet/create {email, blockchains} up to its first await; the
\* route is part of backend2 only
StartWalletCreate(r, e, bl) ==
    /\ env.tree = "B"
    /\ Start(r, "wallet", e)
    /\ run' = [run EXCEPT ![r] =
                 [IdleRun EXCEPT !.kind = "wallet", !.email = e, !.pc = "getUser",
                                 !.user = usersByEmail[e], !.blockchains = bl]]

ExistingUserNone(e) == 0

\* createUser: this.usersByEmail.get(email), 0 when there is none
ExistingUser(e) == usersByEmail[e]

\* after await getUserByEmail: createUser when it gave null, else the
\* wallet test
GetUserReturns(r) ==
    /\ run[r].pc = "getUser"
    /\ LET rr == run[r]
           existing == ExistingUser(rr.email)
           fresh == Len(userRecs) + 1
       IN IF rr.user # 0
            THEN /\ WalletCheck(r, rr)
                 /\ UNCHANGED <<userRecs, users, usersByEmail>>
            ELSE IF existing # 0
            THEN /\ run' = [run EXCEPT ![r] = [rr EXCEPT !.pc = "createUser",
                                                          !.user = existing]]
                 /\ UNCHANGED <<userRecs, users, usersByEmail, createCalls>>
            ELSE /\ userRecs' = Append(userRecs, [email |-> rr.email, walletId |-> 0,
                                                  walletAddress |-> 0])
                 /\ users' = users \cup {fresh}
                 /\ usersByEmail' = [usersByEmail EXCEPT ![rr.email] = fresh]
                 /\ run' = [run EXCEPT ![r] = [rr EXCEPT !.pc = "createUser",
                                                          !.user = fresh]]
                 /\ UNCHANGED createCalls
    /\ UNCHANGED <<env, wallets, calls, createOK, attachedIds, sequential>>
    /\ UNCHANGED <<pollVars, extVars>>

\* after await createUser: the wallet test
CreateUserReturns(r) ==
    /\ run[r].pc = "createUser"
    /\ WalletCheck(r, run[r])
    /\ UNCHANGED <<env, userRecs, users, usersByEmail, wallets, calls, createOK,
                   attachedIds, sequential>>
    /\ UNCHANGED <<pollVars, extVars>>

\* what the provider answers to GET /v1/w3s/wallets/{id}: the wallet, 404,
\* or another failure
GetWalletResponses == {"wallet", "notFound", "error"}

\* getWallet's catch block, for a failure other than 404
GetWalletError(inner) ==
    <<"Circle", "API", ":", "Failed", "to", "get", "wallet", "-">> \o inner

\* POST /wallet/create, after await circleService.getWallet(user.walletId):
\* the wallet ends the request, null (404) lets it go on to createWallet
GetWalletResponds(r, resp) ==
    /\ run[r].pc = "getWallet"
    /\ LET rr == run[r]
       IN /\ run' = [run EXCEPT ![r] =
                CASE resp = "wallet" ->
                         RouteDone(rr, <<"User", "already", "has", "a", "wallet">>)
                  [] resp = "notFound" -> EnterCreateWallet(rr)
                  [] OTHER -> RouteRaise(rr, GetWalletError(ProviderErrorMessage))]
          /\ createCalls' = IF resp = "notFound"
                              THEN [createCalls EXCEPT ![rr.email] = @ + 1]
                              ELSE createCalls
    /\ UNCHANGED <<env, userRecs, users, usersByEmail, wallets, calls, createOK,
                   attachedIds, sequential>>
    /\ UNCHANGED <<pollVars, extVars>>

\* userService.deleteUser(userId), for a user the store holds: the record
\* leaves both maps; a request that holds the user object keeps it
DeleteUser(u) ==
    /\ u \in users
    /\ Len(userRecs) - Cardinality(users) < MaxDeletes
    /\ users' = users \ {u}
    /\ usersByEmail' = [usersByEmail EXCEPT ![userRecs[u].email] = 0]
    /\ sequential' = [sequential EXCEPT ![userRecs[u].email] = FALSE]
    /\ UNCHANGED <<env, userRecs, wallets, run, calls, createCalls, createOK,
                   attachedIds>>
    /\ UNCHANGED <<pollVars, extVars>>

\* what the provider answers to createWallets
CreateResponses ==
    {[kind |-> "reject", blockchain |-> ""], [kind |-> "empty", blockchain |-> ""]}
    \cup [kind : {"wallet"}, blockchain : WalletChains]

\* the provider answers createWallets: createWallet ends, and the caller
\* goes on to updateUserWallet, which writes the user object at once
CreateWalletResponds(r, resp) ==
    /\ run[r].pc = "createWallet"
    /\ LET rr == run[r]
           id == wallets + 1
           made == IF resp.kind = "wallet"
                     THEN <<[id |-> id, address |-> id, blockchain |-> resp.blockchain]>>
                     ELSE <<>>
           threw == \/ resp.kind = "reject"
                    \/ (env.tree = "A" /\ made = <<>>)
           inner == IF resp.kind = "reject" THEN ProviderErrorMessage
                    ELSE <<"No", "wallets", "created", "in", "response">>
           pick == IF rr.kind = "mint" THEN FindWallet(made, rr.chain)
                   ELSE IF made = <<>> THEN 0 ELSE 1
           write == ~threw /\ pick # 0 /\ rr.user \in users
       IN /\ wallets' = IF resp.kind = "wallet" THEN wallets + 1 ELSE wallets
          /\ createOK' = IF resp.kind = "wallet"
                           THEN [createOK EXCEPT ![rr.email] = @ + 1]
                           ELSE createOK
          /\ userRecs' = IF write
                           THEN [userRecs EXCEPT ![rr.user] =
                                    [@ EXCEPT !.walletId = made[pick].id,
                                              !.walletAddress = made[pick].address]]
                           ELSE userRecs
          /\ attachedIds' = IF write
                              THEN [attachedIds EXCEPT ![rr.email] = @ \cup {made[pick].id}]
                              ELSE attachedIds
          /\ usersByEmail' = IF write
                               THEN [usersByEmail EXCEPT ![userRecs[rr.user].email] = rr.user]
                               ELSE usersByEmail
          /\ run' = [run EXCEPT ![r] =
                CASE rr.kind = "wallet" /\ threw ->
                         RouteRaise([rr EXCEPT !.createFailed = TRUE],
                                    CreateWalletError(inner))
                  [] rr.kind = "wallet" /\ pick = 0 ->
                         RouteDone([rr EXCEPT !.createFailed = TRUE],
                                   <<"Wallets", "created", "successfully">>)
                  [] rr.kind = "wallet" /\ ~write ->
                         RouteRaise(rr, <<"Failed", "to", "update", "user", "wallet",
                                          ":", "User", "not", "found">>)
                  [] rr.kind = "login" /\ (threw \/ pick = 0) ->
                         LoginDone([rr EXCEPT !.createFailed = TRUE])
                  [] rr.kind = "login" /\ ~write ->
                         LoginDone([rr EXCEPT !.createFailed = TRUE])
                  [] rr.kind = "mint" /\ threw ->
                         Raise([rr EXCEPT !.createFailed = TRUE], "wallet",
                               CreateWalletError(inner))
                  [] rr.kind = "mint" /\ pick = 0 ->
                         Raise([rr EXCEPT !.createFailed = TRUE], "wallet",
                               NoWalletForChain(rr.chain))
                  [] rr.kind = "mint" /\ ~write ->
                         Raise(rr, "wallet",
                               <<"Failed", "to", "update", "user", "wallet", ":",
                                 "User", "not", "found">>)
                  [] OTHER -> [rr EXCEPT !.pc = "updateWallet", !.attached = TRUE]]
    /\ UNCHANGED <<env, users, calls, createCalls, sequential>>
    /\ UNCHANGED <<pollVars, extVars>>

\* after await updateUserWallet
UpdateWalletReturns(r) ==
    /\ run[r].pc = "updateWallet"
    /\ run' = [run EXCEPT ![r] =
                 CASE run[r].kind = "mint" -> EnterUpload(run[r])
                   [] run[r].kind = "login" -> LoginDone(run[r])
                   [] OTHER -> RouteDone(run[r], <<"Wallets", "created", "successfully">>)]
    /\ UNCHANGED <<env, userRecs, users, usersByEmail, wallets, calls, createCalls,
                   createOK, attachedIds, sequential>>
    /\ UNCHANGED <<pollVars, extVars>>

\* createMockIPFS(metadata): the mock URI; it logs metadata.name
CreateMockIPFS(metadata) ==
    IF metadata = "null" THEN [threw |-> TRUE, uri |-> "", message |-> NullNameError]
    ELSE [threw |-> FALSE, uri |-> "mock", message |-> <<>>]

\* uploadToPinata(metadata), the pinning service answering pin: the request
\* names the file after metadata.name; an error is thrown on
UploadToPinata(pin, metadata) ==
    IF metadata = "null" THEN [threw |-> TRUE, uri |-> "", message |-> NullNameError]
    ELSE IF pin = "pinned" THEN [threw |-> FALSE, uri |-> "pinned", message |-> <<>>]
    ELSE [threw |-> TRUE, uri |-> "", message |-> ProviderErrorMessage]

\* uploadMetadataToIPFS(metadata). Tree A: uploadToPinata when the
\* credentials are configured, createMockIPFS otherwise, and createMockIPFS
\* again in the catch block. Tree B: its own mock URI, logged with
\* metadata.name, and a catch block that throws 'Failed to upload metadata'
UploadMetadataToIPFS(pin, metadata) ==
    IF env.tree = "A"
      THEN LET first == IF env.pinata THEN UploadToPinata(pin, metadata)
                                      ELSE CreateMockIPFS(metadata)
           IN IF first.threw THEN CreateMockIPFS(metadata) ELSE first
      ELSE IF metadata = "null"
             THEN [threw |-> TRUE, uri |-> "",
                   message |-> <<"Failed", "to", "upload", "metadata", ":">>
                                  \o NullNameError]
             ELSE [threw |-> FALSE, uri |-> "mock", message |-> <<>>]

\* uploadMetadataToIPFS ends: with the pinned URI, or the mock URI when the
\* pinning service is not configured or its call failed, and mintNFT goes
\* on to the stablecoin check when asked for, else to the submission; or
\* with an error, which mintNFT's catch block wraps.
UploadReturns(r, pin) ==
    /\ run[r].pc = "upload"
    /\ LET up == UploadMetadataToIPFS(pin, run[r].metadata)
           rr == [run[r] EXCEPT !.uri = up.uri]
       IN run' = [run EXCEPT ![r] =
                    IF up.threw THEN Raise(rr, "upload", up.message)
                    ELSE IF rr.pay
                      THEN [rr EXCEPT !.pc = "balance", !.balanceChecked = TRUE]
                      ELSE EnterSubmit(rr)]
    /\ UNCHANGED <<env, userRecs, users, usersByEmail, wallets, calls, createCalls,
                   createOK, attachedIds, sequential>>
    /\ UNCHANGED <<pollVars, extVars>>

\* what the provider answers to the balance request
BalanceResponses ==
    {[kind |-> "reject", amount |-> 0], [kind |-> "nousdc", amount |-> 0]}
    \cup [kind : {"usdc"}, amount : {PaymentAmount - 1, PaymentAmount}]

InsufficientBalanceOffByOne(amount) == amount + 1 < PaymentAmount

\* parseFloat(usdcBalance.amount) < parseFloat(paymentAmount)
InsufficientBalance(amount) == amount < PaymentAmount

\* the digits of frac / 10^width after the point, trailing zeros dropped
RECURSIVE FractionDigits(_, _)
FractionDigits(frac, width) ==
    IF frac = 0 THEN ""
    ELSE ToString(frac \div Pow10(width - 1))
            \o FractionDigits(frac % Pow10(width - 1), width - 1)

\* `${parseFloat(amount) / Math.pow(10, decimals)}`
DecimalString(amount, decimals) ==
    LET whole == ToString(amount \div Pow10(decimals))
        frac == amount % Pow10(decimals)
    IN IF frac = 0 THEN whole ELSE whole \o "." \o FractionDigits(frac, decimals)

\* part_002 364: the message of the balance that is too low
InsufficientMessage(amount) ==
    <<"Insufficient", "USDC", "balance", ".", "Required", ":",
      ToString(METADATA_STORAGE_COST), "USDC", ",", "Available", ":",
      DecimalString(amount, USDC_DECIMALS), "USDC">>

\* handleUSDCPayment's catch block
UsdcError(inner) == <<"USDC", "payment", "failed", ":">> \o inner

\* the provider answers the balance request: the rest of handleUSDCPayment
BalanceResponds(r, resp) ==
    /\ run[r].pc = "balance"
    /\ LET rr == [run[r] EXCEPT !.balance = resp]
       IN run' = [run EXCEPT ![r] =
            CASE resp.kind = "reject" ->
                     Raise(rr, "usdc",
                           UsdcError(<<"Circle", "API", ":", "Failed", "to", "get",
                                       "wallet", "balance", "-">> \o ProviderErrorMessage))
              [] resp.kind = "nousdc" ->
                     Raise(rr, "usdc",
                           UsdcError(IF env.tree = "A"
                                       THEN <<"No", "USDC", "balance", "found", "in", "wallet">>
                                       ELSE <<"Insufficient", "USDC", "balance", "for",
                                              "metadata", "storage", "payment">>))
              [] resp.kind = "usdc" /\ InsufficientBalance(resp.amount) ->
                     Raise(rr, "usdc",
                           UsdcError(IF env.tree = "A"
                                       THEN InsufficientMessage(resp.amount)
                                       ELSE <<"Insufficient", "USDC", "balance", "for",
                                              "metadata", "storage", "payment">>))
              [] OTHER -> EnterSubmit(rr)]
    /\ UNCHANGED <<env, userRecs, users, usersByEmail, wallets, calls, createCalls,
                   createOK, attachedIds, sequential>>
    /\ UNCHANGED <<pollVars, extVars>>

\* the states a createTransaction response is followed with ("": none given)
SubmitStates == {"", "INITIATED", "CONFIRMED"}

\* what the sponsorship provider answers to createTransaction: a rejection,
\* a response without data, or data whose id, txHash and state may be absent
SubmitResponses ==
    {[kind |-> "reject", id |-> FALSE, txHash |-> FALSE, state |-> ""],
     [kind |-> "nodata", id |-> FALSE, txHash |-> FALSE, state |-> ""]}
    \cup {[kind |-> "data", id |-> TRUE, txHash |-> (st = "CONFIRMED"), state |-> st] :
              st \in SubmitStates}

\* the transaction executeGaslessTransaction returns for provider data
FromProvider(resp) ==
    [accepted |-> TRUE,
     transactionId |-> IF resp.id THEN "provider" ELSE "tx_now",
     hash |-> IF resp.txHash THEN "chain" ELSE "random",
     state |-> IF resp.state # "" THEN resp.state ELSE "CONFIRMED",
     reported |-> resp.state]

\* the mock transaction of the catch blocks
MockTransaction ==
    [accepted |-> FALSE,
     transactionId |-> IF env.tree = "A" THEN "dev_tx_now" ELSE "tx_now",
     hash |-> "random", state |-> "CONFIRMED", reported |-> ""]

\* whether executeGaslessTransaction throws on a failed submission
SubmitFailureThrows == env.tree = "A" /\ env.nodeEnv # "development"

\* the provider answers createTransaction: executeGaslessTransaction ends,
\* and mintNFT goes on to read the receipt
SubmitResponds(r, resp) ==
    /\ run[r].pc = "submit"
    /\ LET rr == [run[r] EXCEPT !.rejected = (resp.kind = "reject")]
           failed == \/ resp.kind = "reject"
                     \/ (resp.kind = "nodata" /\ env.tree = "A")
           inner == IF resp.kind = "reject" THEN ProviderErrorMessage
                    ELSE <<"No", "response", "data", "from", "Circle",
                           "transaction", "API">>
           tx == IF failed THEN MockTransaction
                 ELSE IF resp.kind = "nodata"
                 THEN FromProvider([resp EXCEPT !.kind = "data"])
                 ELSE FromProvider(resp)
       IN run' = [run EXCEPT ![r] =
            IF failed /\ SubmitFailureThrows
              THEN Raise(rr, "submit",
                         <<"Circle", "API", ":", "Gasless", "transaction", "failed", "-">>
                             \o inner)
              ELSE [rr EXCEPT !.pc = "parse", !.tx = tx]]
    /\ UNCHANGED <<env, userRecs, users, usersByEmail, wallets, calls, createCalls,
                   createOK, attachedIds, sequential>>
    /\ UNCHANGED <<pollVars, extVars>>

\* the chain RPC answers getTransactionReceipt: the token id of the mint
\* event when the receipt has one, else "unknown"; mintNFT returns
ReceiptResponds(r, found) ==
    /\ run[r].pc = "parse"
    /\ LET rr == run[r]
       IN run' = [run EXCEPT ![r] =
            [rr EXCEPT !.pc = "done", !.outcome = "returned",
                       !.res = [transactionHash |-> rr.tx.hash,
                                nftId |-> IF found THEN "1" ELSE "unknown",
                                walletAddress |-> userRecs[rr.user].walletAddress,
                                gasSponsored |-> TRUE]]]
    /\ UNCHANGED <<env, userRecs, users, usersByEmail, wallets, calls, createCalls,
                   createOK, attachedIds, sequential>>
    /\ UNCHANGED <<pollVars, extVars>>

InitMint == InitPoll /\ ExtAtRest /\ \E e \in Envs : MintAtRest(e)

\* the emails a request can carry: the two are interchangeable, so the
\* first request's email is taken to be the first of them
RequestEmails == IF calls = 0 THEN {"a@x.com"} ELSE Emails

NextMint ==
    \/ \E r \in Runs, e \in RequestEmails, b \in RequestChains, pay \in BOOLEAN :
          StartMint(r, e, b, pay)
    \/ \E r \in Runs, e \in RequestEmails : StartLogin(r, e)
    \/ \E r \in Runs, e \in RequestEmails, bl \in RouteBlockchains :
          StartWalletCreate(r, e, bl)
    \/ \E r \in Runs, resp \in GetWalletResponses : GetWalletResponds(r, resp)
    \/ \E u \in 1..Len(userRecs) : DeleteUser(u)
    \/ \E r \in Runs : GetUserReturns(r)
    \/ \E r \in Runs : CreateUserReturns(r)
    \/ \E r \in Runs, resp \in CreateResponses : CreateWalletResponds(r, resp)
    \/ \E r \in Runs : UpdateWalletReturns(r)
    \/ \E r \in Runs, pin \in {"pinned", "error"} : UploadReturns(r, pin)
    \/ \E r \in Runs, resp \in BalanceResponses : BalanceResponds(r, resp)
    \/ \E r \in Runs, resp \in SubmitResponses : SubmitResponds(r, resp)
    \/ \E r \in Runs, found \in BOOLEAN : ReceiptResponds(r, found)

SpecMint == InitMint /\ [][NextMint]_vars

(***************************************************************************)
(* Claims about NFTService.mintNFT, POST /login and POST /wallet/create.   *)
(***************************************************************************)
\* C6: over a sequence of non-overlapping mintNFT calls for one email, the
\* provider's create-wallet endpoint succeeds at most once.
C6_CreateSucceedsAtMostOnce ==
    \A e \in Emails : sequential[e] => createOK[e] <= 1

\* C7: two overlapping requests for the same email never both have a
\* create-wallet request in flight, which at most one invocation per user
\* implies.
C7_OneCreateInFlightPerUser ==
    \A r1, r2 \in Runs :
        (r1 # r2 /\ run[r1].email = run[r2].email)
            => ~(run[r1].pc = "createWallet" /\ run[r2].pc = "createWallet")

\* C8: when the create-wallet call of a mintNFT run throws, or gives no wallet
\* for the chain, that run raises without having published metadata, checked
\* a balance or submitted a transaction, and the user's record then holds no
\* walletId and no walletAddress.
C8_CreateFailureIsFatal ==
    [][\A r \in Runs :
          (run[r].kind = "mint" /\ run[r].pc = "createWallet" /\ run'[r].createFailed)
              => /\ run'[r].pc = "done"
                 /\ run'[r].outcome = "raised"
                 /\ ~run'[r].uploadStarted
                 /\ ~run'[r].balanceChecked
                 /\ ~run'[r].submitted
                 /\ userRecs'[run[r].user].walletId = 0
                 /\ userRecs'[run[r].user].walletAddress = 0]_vars

\* C9: when the provider rejects the create-transaction request, mintNFT
\* raises and returns no mint result.
C9_RejectedSubmitRaises ==
    \A r \in Runs :
        run[r].rejected => /\ run[r].pc = "done"
                           /\ run[r].outcome = "raised"
                           /\ run[r].res = NoMintResult

\* C10: a mintNFT run that returned a result had its transaction accepted by
\* the provider and seen the provider report it CONFIRMED.
C10_SuccessFollowsConfirmed ==
    \A r \in Runs :
        (run[r].kind = "mint" /\ run[r].outcome = "returned")
            => run[r].tx.accepted /\ run[r].tx.reported = "CONFIRMED"

(***************************************************************************)
(* BlockchainService.mintNFT and batchMintNFTs: validate, read the         *)
(* remaining supply, estimate (mintNFT only), submit, poll with            *)
(* waitForTransaction, extract the token id(s) from the receipt.           *)
(***************************************************************************)
\* logs in the receipts the model draws
MaxLogs == 2

\* the networks a call can name, and those the service holds a provider
\* and an NFT contract for
Networks == {"BASE-SEPOLIA", "ETH-SEPOLIA"}
ContractNetworks == {"BASE-SEPOLIA"}

\* recipientAddress: an address, a string that is none, or absent
Recipients == {"valid", "invalid", ""}

\* a log of a receipt, as parseLog sees it: one that does not decode
\* against the ABI, another event of the ABI, NFTMinted with its tokenId,
\* BatchMinted with its tokenIds
Logs ==
    {[name |-> "undecodable", tokenId |-> 0, tokenIds |-> <<>>],
     [name |-> "Transfer", tokenId |-> 1, tokenIds |-> <<>>],
     [name |-> "NFTMinted", tokenId |-> 1, tokenIds |-> <<>>],
     [name |-> "NFTMinted", tokenId |-> 2, tokenIds |-> <<>>],
     [name |-> "BatchMinted", tokenId |-> 0, tokenIds |-> <<1, 2>>]}

LogLists == UNION {[1..n -> Logs] : n \in 0..MaxLogs}

\* what provider.getTransactionReceipt gives: it throws, null, or a receipt
Receipts ==
    {[kind |-> "throws", logs |-> <<>>], [kind |-> "null", logs |-> <<>>]}
    \cup {[kind |-> "receipt", logs |-> l] : l \in LogLists}

\* receipt.logs.map(parseLog or null).filter(event && event.name === name)
RECURSIVE EventsNamed(_, _)
EventsNamed(logs, name) ==
    IF logs = <<>> THEN <<>>
    ELSE LET rest == EventsNamed(Tail(logs), name)
         IN IF Head(logs).name = name THEN <<Head(logs)>> \o rest ELSE rest

\* ids.map(id => id.toString())
RECURSIVE IdStrings(_)
IdStrings(ids) ==
    IF ids = <<>> THEN <<>> ELSE <<ToString(Head(ids))>> \o IdStrings(Tail(ids))

\* whether getTokenIdFromTransaction's try block throws before it has a
\* receipt: no provider or contract for the network, the lookup throws, or
\* it gives null.  The hash is passed to the lookup as it is, a missing one
\* included, and what the lookup answers is used
NoReceipt(txHash, network, rcpt) ==
    \/ network \notin ContractNetworks
    \/ rcpt.kind # "receipt"

GetTokenIdFromTransactionNoCatch(txHash, network, rcpt) ==
    IF NoReceipt(txHash, network, rcpt) THEN "threw"
    ELSE LET mintedEvents == EventsNamed(rcpt.logs, "NFTMinted")
         IN IF Len(mintedEvents) = 0 THEN "threw"
            ELSE ToString(mintedEvents[1].tokenId)

GetTokenIdFromTransactionLastEvent(txHash, network, rcpt) ==
    IF NoReceipt(txHash, network, rcpt) THEN "pending"
    ELSE LET mintedEvents == EventsNamed(rcpt.logs, "NFTMinted")
         IN IF Len(mintedEvents) = 0 THEN "pending"
            ELSE ToString(mintedEvents[Len(mintedEvents)].tokenId)

\* getTokenIdFromTransaction
GetTokenIdFromTransaction(txHash, network, rcpt) ==
    IF NoReceipt(txHash, network, rcpt) THEN "pending"
    ELSE LET mintedEvents == EventsNamed(rcpt.logs, "NFTMinted")
         IN IF Len(mintedEvents) = 0 THEN "pending"
            ELSE ToString(mintedEvents[1].tokenId)

\* getTokenIdsFromBatchTransaction
GetTokenIdsFromBatchTransaction(txHash, network, rcpt) ==
    IF NoReceipt(txHash, network, rcpt) THEN <<>>
    ELSE LET batchEvents == EventsNamed(rcpt.logs, "BatchMinted")
         IN IF Len(batchEvents) = 0 THEN <<>>
            ELSE IdStrings(batchEvents[1].tokenIds)

\* the catch block of mintNFT / batchMintNFTs
ChainRaise(b, stage, cause) ==
    [b EXCEPT !.pc = "done", !.outcome = "raised", !.failStage = stage,
              !.cause = cause,
              !.error = [type |-> "BlockchainError",
                         message |-> (IF b.kind = "batch" THEN <<"Batch">> ELSE <<>>)
                                     \o <<"NFT", "minting", "failed", ":">>
                                     \o cause.message]]

PlainError(message) == [type |-> "Error", message |-> message]

\* the start of both calls: getNFTContract, then await getRemainingSupply
ToSupply(b) ==
    IF b.network \notin ContractNetworks
      THEN ChainRaise(b, "validate",
                      [type |-> "BlockchainError",
                       message |-> <<"NFT", "contract", "not", "available", "for",
                                     "network", ":", b.network>>])
      ELSE [b EXCEPT !.pc = "supply"]

\* uuidv4(): the value after those the requests sent so far carry
Uuidv4(s) == Len(s.requests) + 1

SendCreateTransactionWithRetry(s) ==
    LET request == [call |-> s.calls, idempotencyKey |-> Uuidv4(s)]
    IN [s EXCEPT !.requests = Append(Append(@, request), request)]

\* createGaslessTransaction up to its await: one POST /transactions with a
\* new idempotencyKey, by the call that is running
SendCreateTransaction(s) ==
    [s EXCEPT !.requests = Append(@, [call |-> s.calls, idempotencyKey |-> Uuidv4(s)])]

\* blockchainService.mintNFT({walletId, recipientAddress, tokenURI, network})
\* up to its first await
BcMintNFT(w, rcp, uri, net) ==
    /\ bc.pc = "idle"
    /\ LET b == [IdleChainMint EXCEPT !.kind = "mint", !.walletId = w,
                                      !.recipient = rcp, !.tokenURI = uri,
                                      !.network = net, !.count = 1]
       IN bc' = IF ~w \/ rcp = "" \/ ~uri
                  THEN ChainRaise(b, "validate",
                           PlainError(<<"Missing", "required", "parameters", "for",
                                        "NFT", "minting">>))
                ELSE IF rcp # "valid"
                  THEN ChainRaise(b, "validate",
                           PlainError(<<"Invalid", "recipient", "address">>))
                ELSE ToSupply(b)
    /\ sent' = [sent EXCEPT !.calls = @ + 1]
    /\ UNCHANGED <<pollVars, mintVars, notChainSent>>

\* blockchainService.batchMintNFTs({walletId, recipients, tokenURIs, network})
\* with n recipients (all addresses, or one that is none) and m tokenURIs,
\* up to its first await
BcBatchMintNFTs(n, m, allValid, net) ==
    /\ bc.pc = "idle"
    /\ LET b == [IdleChainMint EXCEPT !.kind = "batch", !.walletId = TRUE,
                                      !.recipient = IF allValid THEN "valid" ELSE "invalid",
                                      !.tokenURI = TRUE, !.network = net, !.count = n]
       IN bc' = IF n # m
                  THEN ChainRaise(b, "validate",
                           PlainError(<<"Recipients", "and", "tokenURIs", "arrays", "must",
                                        "have", "the", "same", "length">>))
                ELSE IF n = 0
                  THEN ChainRaise(b, "validate",
                           PlainError(<<"No", "recipients", "specified">>))
                ELSE IF ~allValid
                  THEN ChainRaise(b, "validate",
                           PlainError(<<"Invalid", "recipient", "address", ":", "invalid">>))
                ELSE ToSupply(b)
    /\ sent' = [sent EXCEPT !.calls = @ + 1]
    /\ UNCHANGED <<pollVars, mintVars, notChainSent>>

\* the chain RPC answers getRemainingSupply: it rejects, or gives a number
BcSupplyResponds(rejects, remaining) ==
    /\ bc.pc = "supply"
    /\ bc' = IF rejects
               THEN ChainRaise(bc, "supply",
                        PlainError(<<"could", "not", "detect", "network">>))
             ELSE IF bc.kind = "mint" /\ remaining = 0
               THEN ChainRaise(bc, "supply",
                        PlainError(<<"No", "NFTs", "remaining", "to", "mint">>))
             ELSE IF bc.kind = "batch" /\ remaining < bc.count
               THEN ChainRaise(bc, "supply",
                        PlainError(<<"Not", "enough", "NFTs", "remaining", ".",
                                     "Requested", ":", ToString(bc.count), ",",
                                     "Available", ":", ToString(remaining)>>))
             ELSE IF bc.kind = "mint"
               THEN [bc EXCEPT !.pc = "estimate", !.estimated = TRUE]
             ELSE [bc EXCEPT !.pc = "submit", !.submitted = TRUE]
    /\ sent' = IF bc'.pc = "submit" THEN SendCreateTransaction(sent) ELSE sent
    /\ UNCHANGED <<pollVars, mintVars, notChainSent>>

\* estimateGasCost ends: the provider's estimate, or its fallback values
\* when the request failed; it never throws
BcEstimateResponds(ok) ==
    /\ bc.pc = "estimate"
    /\ bc' = [bc EXCEPT !.pc = "submit", !.submitted = TRUE,
                        !.gasSaved = IF ok THEN "estimate" ELSE "0.005"]
    /\ sent' = SendCreateTransaction(sent)
    /\ UNCHANGED <<pollVars, mintVars, notChainSent>>

\* createGaslessTransaction's catch block
SubmitErrorMessage(f) ==
    <<"Gasless", "transaction", "failed", ":">>
        \o OrElse(f.providerMessage, f.clientMessage)

\* the provider rejects the create-transaction request: createGaslessTransaction
\* throws a CircleApiError
BcSubmitRejected(f) ==
    /\ bc.pc = "submit"
    /\ bc' = ChainRaise(bc, "submit",
                        [type |-> "CircleApiError", message |-> SubmitErrorMessage(f)])
    /\ UNCHANGED <<pollVars, mintVars, notChain>>

\* the provider accepts it: waitForTransaction is called
BcSubmitAccepted(m, p) ==
    /\ bc.pc = "submit"
    /\ bc' = [bc EXCEPT !.pc = "poll", !.polled = TRUE]
    /\ wpc = "idle"
    /\ maxWaitTime' = m
    /\ pollInterval' = p
    /\ startTime' = now
    /\ wpc' = "test"
    /\ UNCHANGED <<now, obs, queries, sleeps, result>>
    /\ UNCHANGED <<mintVars, notChain>>

\* waitForTransaction has ended and its frame is gone: on an error the
\* catch block, else the receipt is asked for
BcPollEnds ==
    /\ bc.pc = "poll"
    /\ wpc = "done"
    /\ bc' = IF result.kind = "threw"
               THEN ChainRaise([bc EXCEPT !.pollResult = result], "poll",
                        [type |-> IF result.at = "query" THEN "CircleApiError" ELSE "Error",
                         message |-> result.message])
               ELSE [bc EXCEPT !.pc = "extract", !.extracted = TRUE,
                               !.pollResult = result,
                               !.txHash = result.txHash]
    /\ wpc' = "idle"
    /\ maxWaitTime' = 0
    /\ pollInterval' = 0
    /\ startTime' = 0
    /\ obs' = <<>>
    /\ queries' = 0
    /\ sleeps' = 0
    /\ result' = NoResult
    /\ UNCHANGED <<now, mintVars, notChain>>

\* getTransactionReceipt ends and with it the extraction; the call returns
BcReceiptResponds(rcpt) ==
    /\ bc.pc = "extract"
    /\ bc' = [bc EXCEPT
                !.pc = "done", !.outcome = "returned", !.success = TRUE,
                !.receipt = rcpt,
                !.tokenId = IF bc.kind = "mint"
                              THEN GetTokenIdFromTransaction(bc.txHash, bc.network, rcpt)
                              ELSE "",
                !.tokenIds = IF bc.kind = "batch"
                               THEN GetTokenIdsFromBatchTransaction(bc.txHash, bc.network, rcpt)
                               ELSE <<>>]
    /\ UNCHANGED <<pollVars, mintVars, notChain>>

InitChain == InitPoll /\ MintAtRest(PollOnly) /\ ExtAtRest

NextChain ==
    \/ \E w \in BOOLEAN, rcp \in Recipients, uri \in BOOLEAN, net \in Networks :
          BcMintNFT(w, rcp, uri, net)
    \/ \E n \in 0..MaxBatch, m \in 0..MaxBatch, v \in BOOLEAN, net \in Networks :
          BcBatchMintNFTs(n, m, v, net)
    \/ \E rejects \in BOOLEAN, remaining \in 0..MaxBatch :
          BcSupplyResponds(rejects, remaining)
    \/ \E ok \in BOOLEAN : BcEstimateResponds(ok)
    \/ \E f \in QueryFailures : BcSubmitRejected(f)
    \/ \E m \in 0..MaxWait, p \in 0..MaxPoll : BcSubmitAccepted(m, p)
    \/ LoopEnter
    \/ LoopTimeout
    \/ \E s \in CIRCLE_TRANSACTION_STATES, h \in TxHashes, r \in ErrorReasons,
          d \in 0..MaxQueryTime : StatusReturns(s, h, r, d)
    \/ \E f \in QueryFailures, d \in 0..MaxQueryTime : StatusThrows(f, d)
    \/ \E late \in 0..MaxLate : SleepDone(late)
    \/ BcPollEnds
    \/ \E rcpt \in Receipts : BcReceiptResponds(rcpt)

SpecChain == InitChain /\ [][NextChain]_vars

(***************************************************************************)
(* Either service, one request after another: NFTService.mintNFT and       *)
(* POST /login served singly, or one BlockchainService call.               *)
(***************************************************************************)
InitStages == InitPoll /\ ExtAtRest /\ \E e \in Envs \cup {PollOnly} : MintAtRest(e)

NextStages ==
    \/ (bc.pc = "idle" /\ NextMint /\ run'[2] = IdleRun)
    \/ (env = PollOnly /\ calls = 0 /\ NextChain)

SpecStages == InitStages /\ [][NextStages]_vars

\* what an NFTService.mintNFT run that raised at a stage has not done
MintStoppedAt(rr) ==
    /\ rr.pc = "done"
    /\ rr.res = NoMintResult
    /\ SubSeq(rr.message, 1, 5) = <<"Failed", "to", "mint", "NFT", ":">>
    /\ rr.failStage \in {"config", "wallet", "usdc", "submit"}
    /\ rr.failStage = "config" => rr.user = 0 /\ ~rr.calledCreate
    /\ rr.failStage \in {"config", "wallet"} => ~rr.uploadStarted /\ ~rr.balanceChecked
    /\ rr.failStage \in {"config", "wallet", "usdc"} => ~rr.submitted
    /\ rr.tx = NoTx

\* what a BlockchainService call that raised at a stage has not done
ChainStoppedAt(b) ==
    /\ b.pc = "done"
    /\ ~b.success /\ b.tokenId = "" /\ b.tokenIds = <<>>
    /\ b.error.type = "BlockchainError"
    /\ b.failStage \in {"validate", "supply", "submit", "poll"}
    /\ b.failStage \in {"validate", "supply"} => ~b.estimated /\ ~b.submitted
    /\ b.failStage \in {"validate", "supply", "submit"} => ~b.polled
    /\ ~b.extracted

\* C11: a mintNFT run in which a stage raised has run no later stage, holds
\* no result, and has raised one error to its caller; a poll that ended in
\* an error (FAILED or the timeout) is followed neither by the extraction of
\* a token id nor by a success result.
C11_RaiseAbortsTheRun ==
    /\ \A r \in Runs :
          (run[r].kind = "mint" /\ run[r].outcome = "raised") => MintStoppedAt(run[r])
    /\ bc.outcome = "raised" => ChainStoppedAt(bc)
    /\ bc.pollResult.kind = "threw" =>
          bc.outcome = "raised" /\ bc.failStage = "poll" /\ ~bc.extracted /\ ~bc.success
    /\ (bc.extracted \/ bc.success) => bc.pollResult.kind = "returned"

C11_Witness ==
    /\ bc.kind = "mint"
    /\ bc.outcome = "raised"
    /\ bc.failStage = "poll"
    /\ IsTimeoutError(bc.pollResult)

(***************************************************************************)
(* Claims about the stages of NFTService.mintNFT.                          *)
(***************************************************************************)
\* the balance answer does not cover the storage cost
BalanceTooLow(b) ==
    \/ b.kind = "nousdc"
    \/ (b.kind = "usdc" /\ b.amount < METADATA_STORAGE_COST * Pow10(USDC_DECIMALS))

\* C12: with payWithUSDC, a wallet without a USDC balance entry or with a
\* balance below the storage cost makes mintNFT raise without submitting a
\* transaction; the balance is asked for before the submit call, never
\* after it, and never when payWithUSDC is false.
C12_BalanceGatesSubmission ==
    \A r \in Runs :
        LET rr == run[r] IN
        rr.kind = "mint" =>
            /\ BalanceTooLow(rr.balance) =>
                  /\ rr.pc = "done" /\ rr.outcome = "raised" /\ rr.failStage = "usdc"
                  /\ ~rr.submitted /\ rr.tx = NoTx /\ rr.res = NoMintResult
            /\ rr.pc = "balance" => ~rr.submitted /\ rr.pay
            /\ (rr.submitted /\ rr.pay) =>
                  /\ rr.balanceChecked
                  /\ rr.balance.kind = "usdc"
                  /\ rr.balance.amount >= METADATA_STORAGE_COST * Pow10(USDC_DECIMALS)
            /\ ~rr.pay => ~rr.balanceChecked /\ rr.balance.kind = ""

C12_Witness ==
    \E r \in Runs :
        /\ run[r].kind = "mint" /\ run[r].pay
        /\ run[r].balance = [kind |-> "usdc", amount |-> 999999]
        /\ run[r].outcome = "raised"
        /\ ~run[r].submitted

\* C13 (as claimed): uploadMetadataToIPFS gives a URI and never raises,
\* with or without pinning credentials and also when the pinning call fails
\* (then the mock URI); no mintNFT run ends at the publish stage, each goes
\* on to the next stage with a URI.
C13_PublishNeverFails ==
    \A r \in Runs :
        LET rr == run[r] IN
        rr.kind = "mint" =>
            /\ rr.failStage # "upload"
            /\ (rr.uploadStarted /\ rr.pc # "upload") =>
                  /\ rr.uri \in {"pinned", "mock"}
                  /\ rr.pc \in {"balance", "submit", "parse", "done"}
                  /\ rr.balanceChecked \/ rr.submitted
                  /\ rr.outcome = "raised" => rr.failStage \in {"usdc", "submit"}
            /\ (rr.uri = "pinned") => (env.tree = "A" /\ env.pinata)

(***************************************************************************)
(* Claims about BlockchainService, checked under SpecChain.                *)
(***************************************************************************)
\* the receipt lookup gave no receipt, or one without a log that decodes to
\* the named event
NoEventNamed(rcpt, name) ==
    \/ rcpt.kind # "receipt"
    \/ \A i \in 1..Len(rcpt.logs) : rcpt.logs[i].name # name

\* C14: the extraction of the token id never raises: a call whose poll
\* returned ends with success; with a receipt that is missing, has no logs,
\* or has only logs that fail to decode or decode to other events, mintNFT
\* returns tokenId "pending" and batchMintNFTs an empty list.
C14_ReceiptErrorsAreNotRaised ==
    /\ bc.failStage # "extract"
    /\ (bc.extracted /\ bc.pc = "done") =>
          /\ bc.outcome = "returned" /\ bc.success
          /\ bc.pollResult.kind = "returned"
          /\ (bc.kind = "mint" /\ NoEventNamed(bc.receipt, "NFTMinted"))
                => bc.tokenId = "pending"
          /\ (bc.kind = "batch" /\ NoEventNamed(bc.receipt, "BatchMinted"))
                => bc.tokenIds = <<>>
          /\ bc.kind = "mint" => bc.tokenId \in {"pending", "1", "2"}

C14_Witness ==
    /\ bc.kind = "mint"
    /\ bc.pollResult.kind = "returned"
    /\ bc.txHash = 1
    /\ bc.receipt.kind = "receipt"
    /\ Len(bc.receipt.logs) = 2
    /\ bc.receipt.logs[1].name = "undecodable"
    /\ bc.receipt.logs[2].name = "Transfer"
    /\ bc.success
    /\ bc.tokenId = "pending"

(***************************************************************************)
(* POST /batch-mint: the items of the batch are minted one after another   *)
(* with nftService.mintNFT, whose steps run between those of the route.    *)
(***************************************************************************)
\* items in a batch request
MaxItems == 3

\* setTimeout(resolve, 1000) after a minted item
BATCH_DELAY == 1000

\* the response of the route
BatchResponse(b) ==
    [status |-> IF Len(b.results) > 0 THEN 201 ELSE 400,
     success |-> Len(b.errors) < b.n,
     successful |-> b.results,
     errors |-> b.errors,
     totalRequested |-> b.n,
     totalSuccessful |-> Len(b.results),
     totalFailed |-> Len(b.errors)]

\* the loop test with the given i: the next item's mintNFT call, with
\* payWithUSDC for the first item only, or the response after the loop
LoopTest(b, i) ==
    IF i < b.n
      THEN [b EXCEPT !.pc = "mint", !.i = i,
                     !.attempts = Append(b.attempts, i),
                     !.starts = Append(b.starts, b.elapsed),
                     !.pays = Append(b.pays, IF i = 0 THEN b.pay ELSE FALSE)]
      ELSE [b EXCEPT !.pc = "done", !.i = i, !.response = BatchResponse(b)]

BatchCatchAborts(b) ==
    LET c == [b EXCEPT !.errors = Append(b.errors, [index |-> b.i])]
    IN [c EXCEPT !.pc = "done", !.response = BatchResponse(c)]

\* the catch block of the loop body, and the next iteration
BatchCatch(b) ==
    LoopTest([b EXCEPT !.errors = Append(b.errors, [index |-> b.i])], b.i + 1)

\* the run of nftService.mintNFT the route awaits
BatchRun == CHOOSE r \in Runs : \A o \in Runs : r <= o

\* the time one awaited mintNFT takes on the route's clock: none, or a tick
CallTicks == {0, 1}

\* after the loop test: nftService.mintNFT is called for the item, when
\* there is one, and runs up to its first await
BatchCallsMint(b) ==
    IF b.pc = "mint"
      THEN run' = [run EXCEPT ![BatchRun] =
                      MintNFTCalled(b.email, b.nfts[b.i + 1], b.chain,
                                    b.pays[Len(b.pays)])]
      ELSE UNCHANGED run

\* POST /batch-mint {email, nfts, blockchain, payWithUSDC}: the validation
\* answers 400 unless nfts is an array of 1 to 10 items (it tests nothing of
\* the items), else the loop starts
BatchMint(e, nfts, chain, pay) ==
    /\ batch.pc = "idle"
    /\ LET n == Len(nfts)
           req == [IdleBatch EXCEPT !.n = n, !.nfts = nfts, !.pay = pay,
                                    !.email = e, !.chain = chain]
           b == IF n < 1 \/ n > 10
                  THEN [req EXCEPT !.pc = "done", !.response = [status |-> 400]]
                  ELSE LoopTest(req, 0)
       IN batch' = b /\ BatchCallsMint(b)
    /\ UNCHANGED <<env, userRecs, users, usersByEmail, wallets, calls, createCalls,
                   createOK, attachedIds, sequential>>
    /\ UNCHANGED <<pollVars, notBatch>>

\* the awaited mintNFT has returned for item i, d ticks after it was
\* called: results.push, then the delay
BatchItemReturns(d) ==
    /\ batch.pc = "mint"
    /\ run[BatchRun].pc = "done"
    /\ run[BatchRun].outcome = "returned"
    /\ batch' = [batch EXCEPT !.pc = "sleep",
                              !.results = Append(batch.results, [index |-> batch.i]),
                              !.delays = batch.delays + 1,
                              !.elapsed = batch.elapsed + d,
                              !.ends = Append(batch.ends, batch.elapsed + d)]
    /\ UNCHANGED <<pollVars, mintVars, notBatch>>

\* the awaited mintNFT has thrown for item i, d ticks after it was called:
\* the catch block, and the next item's call
BatchItemThrows(d) ==
    /\ batch.pc = "mint"
    /\ run[BatchRun].pc = "done"
    /\ run[BatchRun].outcome = "raised"
    /\ LET b == BatchCatch([batch EXCEPT !.elapsed = batch.elapsed + d,
                                         !.ends = Append(batch.ends, batch.elapsed + d)])
       IN batch' = b /\ BatchCallsMint(b)
    /\ UNCHANGED <<env, userRecs, users, usersByEmail, wallets, calls, createCalls,
                   createOK, attachedIds, sequential>>
    /\ UNCHANGED <<pollVars, notBatch>>

\* the delay after a minted item is over, late ticks after it was due: the
\* next item's call
BatchDelayDone(late) ==
    /\ batch.pc = "sleep"
    /\ LET b == LoopTest([batch EXCEPT !.elapsed = batch.elapsed + BATCH_DELAY + late],
                         batch.i + 1)
       IN batch' = b /\ BatchCallsMint(b)
    /\ UNCHANGED <<env, userRecs, users, usersByEmail, wallets, calls, createCalls,
                   createOK, attachedIds, sequential>>
    /\ UNCHANGED <<pollVars, notBatch>>

InitBatch == InitPoll /\ ExtAtRest /\ \E e \in Envs : MintAtRest(e)

\* the route, and between its steps those of the mintNFT it awaits
NextBatch ==
    \/ \E e \in RequestEmails, chain \in RequestChains, pay \in BOOLEAN,
          nfts \in UNION {[1..k -> Metadata] : k \in 0..MaxItems} :
          BatchMint(e, nfts, chain, pay)
    \/ \E d \in CallTicks : BatchItemReturns(d)
    \/ \E d \in CallTicks : BatchItemThrows(d)
    \/ \E late \in 0..MaxLate : BatchDelayDone(late)
    \/ GetUserReturns(BatchRun)
    \/ CreateUserReturns(BatchRun)
    \/ \E resp \in CreateResponses : CreateWalletResponds(BatchRun, resp)
    \/ UpdateWalletReturns(BatchRun)
    \/ \E pin \in {"pinned", "error"} : UploadReturns(BatchRun, pin)
    \/ \E resp \in BalanceResponses : BalanceResponds(BatchRun, resp)
    \/ \E resp \in SubmitResponses : SubmitResponds(BatchRun, resp)
    \/ \E found \in BOOLEAN : ReceiptResponds(BatchRun, found)

SpecBatch == InitBatch /\ [][NextBatch]_vars

\* the indices 0 .. n-1 in order
RECURSIVE UpTo(_)
UpTo(n) == IF n = 0 THEN <<>> ELSE Append(UpTo(n - 1), n - 1)

IndicesOf(list) == {list[k].index : k \in 1..Len(list)}

\* C15: a batch of n items attempts every item once, in input order,
\* whatever failed before; every item ends in exactly one of the lists
\* successful and errors, so totalSuccessful + totalFailed = totalRequested
\* = n.
C15_BatchToleratesFailure ==
    (batch.pc = "done" /\ batch.n >= 1) =>
        /\ batch.attempts = UpTo(batch.n)
        /\ IndicesOf(batch.results) \cup IndicesOf(batch.errors) = 0..(batch.n - 1)
        /\ IndicesOf(batch.results) \cap IndicesOf(batch.errors) = {}
        /\ Len(batch.results) + Len(batch.errors) = batch.n
        /\ batch.response.totalRequested = batch.n
        /\ batch.response.totalSuccessful + batch.response.totalFailed
              = batch.response.totalRequested
        /\ batch.response.successful = batch.results
        /\ batch.response.errors = batch.errors

C15_Witness ==
    /\ batch.pc = "done"
    /\ batch.n = 3
    /\ batch.errors = <<[index |-> 1]>>
    /\ batch.results = <<[index |-> 0], [index |-> 2]>>
    /\ batch.response.totalSuccessful = 2
    /\ batch.response.totalFailed = 1

(***************************************************************************)
(* The poller while the client of the enclosing request may go away.       *)
(* waitForTransaction takes the transaction id, the budget and the         *)
(* interval; nothing of the request reaches it.                            *)
(***************************************************************************)
\* the client of the request closes the connection while the call polls
ClientDisconnects ==
    /\ wpc \in {"test", "query", "sleep"}
    /\ cancelledAt = -1
    /\ cancelledAt' = now
    /\ UNCHANGED <<pollVars, mintVars, bc, batch, nft, sent, limiter>>

NextPollCancel ==
    \/ NextPoll
    \/ ClientDisconnects

SpecPollCancel == InitPollOnly /\ [][NextPollCancel]_vars

\* C16: once the client of the request is gone, the poller issues no status
\* query later than one poll interval after the cancellation.
C16_NoQueryAfterCancel ==
    (cancelledAt >= 0 /\ wpc = "query") => now <= cancelledAt + pollInterval

(***************************************************************************)
(* POST /mint: an error of nftService.mintNFT reaches the client through   *)
(* asyncHandler and errorHandler.                                          *)
(***************************************************************************)
\* the error mintNFT's catch block throws: a new Error with the message
MintError(rr) == [type |-> "Error", message |-> rr.message]

\* err.name: AppError does not set it, the other classes name themselves
ErrorName(err) == IF err.type = "AppError" THEN "Error" ELSE err.type

\* errorHandler: the status and the body of the response to an error; the
\* stack, which starts with the error's name and message, is sent in
\* development only
ErrorHandler(err) ==
    LET answer ==
          CASE err.type = "AppError" ->
                   [status |-> err.statusCode, error |-> err.message]
            [] err.type = "JsonWebTokenError" ->
                   [status |-> 401, error |-> <<"Invalid", "token">>]
            [] err.type = "TokenExpiredError" ->
                   [status |-> 401, error |-> <<"Token", "expired">>]
            [] err.type = "ValidationError" ->
                   [status |-> 400, error |-> err.message]
            [] OTHER ->
                   IF Includes(err.message, <<"Circle", "API">>)
                     THEN [status |-> 502, error |-> <<"Circle", "service", "error">>]
                   ELSE IF \/ Includes(err.message, <<"blockchain">>)
                           \/ Includes(err.message, <<"transaction">>)
                     THEN [status |-> 502, error |-> <<"Blockchain", "service", "error">>]
                   ELSE [status |-> 500, error |-> <<"Internal", "Server", "Error">>]
    IN [success |-> FALSE, status |-> answer.status, error |-> answer.error,
        stack |-> IF env.nodeEnv = "development"
                    THEN <<ErrorName(err), ":">> \o err.message ELSE <<>>]

\* C17: failures of mintNFT in different stages reach the client of
\* POST /mint as responses that differ.
C17_StagesAreDistinguishable ==
    \A r1, r2 \in Runs :
        (/\ run[r1].kind = "mint" /\ run[r1].outcome = "raised"
         /\ run[r2].kind = "mint" /\ run[r2].outcome = "raised"
         /\ run[r1].failStage # run[r2].failStage)
            => ErrorHandler(MintError(run[r1])) # ErrorHandler(MintError(run[r2]))

\* C18: once a user's walletId is set, no later step replaces it or the
\* address with another.
C18_AttachIsCompareAndSet ==
    [][\A u \in 1..Len(userRecs) :
          userRecs[u].walletId # 0 =>
              /\ userRecs'[u].walletId = userRecs[u].walletId
              /\ userRecs'[u].walletAddress = userRecs[u].walletAddress]_vars

\* the records the Ledger holds with the given email, and those it ever made
RecordsOf(e) == {u \in users : userRecs[u].email = e}
CreatedFor(e) == {u \in 1..Len(userRecs) : userRecs[u].email = e}

\* C19: the email is a unique key of the Ledger: it holds at most one User
\* record per email, the one the index by email names, whatever the order
\* and the interleaving of the mint, login and wallet requests; and for an
\* email none of whose records was deleted, no second record was ever made.
C19_EmailIsUniqueKey ==
    \A e \in Emails :
        /\ Cardinality(RecordsOf(e)) <= 1
        /\ RecordsOf(e) = IF usersByEmail[e] = 0 THEN {} ELSE {usersByEmail[e]}
        /\ CreatedFor(e) \subseteq users => Cardinality(CreatedFor(e)) <= 1

\* two requests for one new email have both gone through createUser, the
\* second finding the record of the first
C19_Witness ==
    /\ run[1].pc = "createUser"
    /\ run[2].pc = "createUser"
    /\ run[1].email = run[2].email
    /\ run[1].user = run[2].user
    /\ run[1].user # 0
    /\ Len(userRecs) = 1

(***************************************************************************)
(* The GaslessNFT contract: a supply cap fixed at deployment, mint and     *)
(* batchMint by the owner or an authorized minter, token ids counted from  *)
(* 1. A call that reverts leaves the contract as it was.                   *)
(***************************************************************************)
\* the largest maxSupply deployed, the longest batch
MaxSupply == 3
MaxMint == 2

\* recipients of tokens, and msg.sender: the deployer and another account
Holders == {"user1", "user2"}
Callers == {"owner", "minter"}

\* a token URI: the empty string, or one with content
TokenURIs == {"", "ipfs://QmTest"}

\* the supply test of mint, applied to a batch of k
ExceedsSupplyPerCall(n, k) == n.tokenIdCounter > n.maxSupply

\* _tokenIdCounter + k - 1 > maxSupply: the supply test of batchMint, and
\* with k = 1 that of mint (_tokenIdCounter > maxSupply)
ExceedsSupply(n, k) == n.tokenIdCounter + k - 1 > n.maxSupply

\* getCurrentTokenId()
GetCurrentTokenId(n) == n.tokenIdCounter - 1

\* getRemainingSupply()
GetRemainingSupply(n) ==
    LET currentId == n.tokenIdCounter - 1
    IN IF n.maxSupply > currentId THEN n.maxSupply - currentId ELSE 0

\* modifier onlyAuthorizedMinter passes
IsAuthorizedMinter(n, caller) == caller \in n.authorizedMinters \/ caller = "owner"

\* the call reverts: the contract as before
Reverted(n, op, authorized, k, uris, reason) ==
    [n EXCEPT !.last = [op |-> op, authorized |-> authorized, k |-> k, uris |-> uris,
                        before |-> GetCurrentTokenId(n), reverted |-> TRUE,
                        reason |-> reason]]

\* the call mints to the recipients in order, one token id each
Minted(n, op, recipients, tokenURIs) ==
    [n EXCEPT !.tokenIdCounter = n.tokenIdCounter + Len(recipients),
              !.owners = n.owners \o recipients,
              !.tokenMetadata = n.tokenMetadata \o tokenURIs,
              !.last = [op |-> op, authorized |-> TRUE, k |-> Len(recipients),
                        uris |-> Len(tokenURIs), before |-> GetCurrentTokenId(n),
                        reverted |-> FALSE, reason |-> ""]]

\* constructor(name, symbol, maxSupply, mintPrice, usdcToken)
ContractDeploy(supply) ==
    /\ ~nft.deployed
    /\ nft' = [NoContract EXCEPT !.deployed = TRUE, !.maxSupply = supply]
    /\ UNCHANGED <<pollVars, mintVars, notContract>>

\* setAuthorizedMinter(minter, authorized), onlyOwner
SetAuthorizedMinter(caller, minter, authorized) ==
    /\ nft.deployed
    /\ nft' = IF caller # "owner"
                THEN Reverted(nft, "setAuthorizedMinter", FALSE, 0, 0,
                              "OwnableUnauthorizedAccount")
                ELSE [nft EXCEPT !.authorizedMinters =
                                    IF authorized THEN @ \cup {minter} ELSE @ \ {minter},
                                 !.last = [NoContractCall EXCEPT
                                              !.op = "setAuthorizedMinter",
                                              !.authorized = TRUE,
                                              !.before = GetCurrentTokenId(nft)]]
    /\ UNCHANGED <<pollVars, mintVars, notContract>>

\* the first check of mint that fails, "" when none does
MintFailing(n, caller, tokenURI) ==
    IF ~IsAuthorizedMinter(n, caller) THEN "UnauthorizedMinter"
    ELSE IF ExceedsSupply(n, 1) THEN "MaxSupplyExceeded"
    ELSE IF tokenURI = "" THEN "InvalidTokenURI"
    ELSE ""

\* mint(to, tokenURI) by a caller
ContractMint(caller, to, tokenURI) ==
    /\ nft.deployed
    /\ LET reason == MintFailing(nft, caller, tokenURI)
       IN nft' = IF reason = ""
                   THEN Minted(nft, "mint", <<to>>, <<tokenURI>>)
                   ELSE Reverted(nft, "mint", IsAuthorizedMinter(nft, caller), 1, 1,
                                 reason)
    /\ UNCHANGED <<pollVars, mintVars, notContract>>

\* the first check of batchMint that fails, "" when none does: the
\* modifier, the two requires, the supply test, then in the loop the URI
\* of each item
BatchMintFailing(n, caller, recipients, tokenURIs) ==
    IF ~IsAuthorizedMinter(n, caller) THEN "UnauthorizedMinter"
    ELSE IF Len(recipients) # Len(tokenURIs) THEN "Arrays length mismatch"
    ELSE IF Len(recipients) = 0 THEN "Empty arrays"
    ELSE IF ExceedsSupply(n, Len(recipients)) THEN "MaxSupplyExceeded"
    ELSE IF \E i \in 1..Len(tokenURIs) : tokenURIs[i] = "" THEN "InvalidTokenURI"
    ELSE ""

\* batchMint(recipients, tokenURIs) by a caller
ContractBatchMint(caller, recipients, tokenURIs) ==
    /\ nft.deployed
    /\ LET reason == BatchMintFailing(nft, caller, recipients, tokenURIs)
       IN nft' = IF reason = ""
                   THEN Minted(nft, "batchMint", recipients, tokenURIs)
                   ELSE Reverted(nft, "batchMint", IsAuthorizedMinter(nft, caller),
                                 Len(recipients), Len(tokenURIs), reason)
    /\ UNCHANGED <<pollVars, mintVars, notContract>>

RecipientLists == UNION {[1..k -> Holders] : k \in 0..MaxMint}

InitContract == InitPoll /\ MintAtRest(PollOnly) /\ ExtAtRest

NextContract ==
    \/ \E supply \in 0..MaxSupply : ContractDeploy(supply)
    \/ \E caller \in Callers, minter \in Callers \ {"owner"}, authorized \in BOOLEAN :
          SetAuthorizedMinter(caller, minter, authorized)
    \/ \E caller \in Callers, to \in Holders, tokenURI \in TokenURIs :
          ContractMint(caller, to, tokenURI)
    \/ \E caller \in Callers, recipients \in RecipientLists,
          tokenURIs \in UNION {[1..k -> TokenURIs] : k \in 0..MaxMint} :
          ContractBatchMint(caller, recipients, tokenURIs)

SpecContract == InitContract /\ [][NextContract]_vars

\* C20: the tokens minted never exceed maxSupply: a mint, or a batchMint of
\* k, that would exceed it reverts and mints nothing, with MaxSupplyExceeded
\* when the caller may mint and the arrays are of one length (also when a
\* URI is empty); a batch mints all of its k tokens or none; and
\* getRemainingSupply is maxSupply less the tokens minted.
C20_SupplyIsCapped ==
    /\ Len(nft.owners) <= nft.maxSupply
    /\ GetCurrentTokenId(nft) = Len(nft.owners)
    /\ GetRemainingSupply(nft) = nft.maxSupply - Len(nft.owners)
    /\ nft.last.op \in {"mint", "batchMint"} =>
          /\ Len(nft.owners) = IF nft.last.reverted THEN nft.last.before
                                                    ELSE nft.last.before + nft.last.k
          /\ nft.last.before + nft.last.k > nft.maxSupply =>
                /\ nft.last.reverted
                /\ (nft.last.authorized /\ nft.last.k = nft.last.uris) =>
                      nft.last.reason = "MaxSupplyExceeded"

\* supply 2: one mint, then a batch of 2 reverts with MaxSupplyExceeded
C20_Witness ==
    /\ nft.maxSupply = 2
    /\ Len(nft.owners) = 1
    /\ nft.last = [op |-> "batchMint", authorized |-> TRUE, k |-> 2, uris |-> 2,
                   before |-> 1, reverted |-> TRUE, reason |-> "MaxSupplyExceeded"]

(***************************************************************************)
(* Further claims about the poller.                                        *)
(***************************************************************************)
\* Math.ceil(a / b) for b > 0
CeilDiv(a, b) == (a + b - 1) \div b

\* the provider reported a state other than CONFIRMED and FAILED to every
\* query, no query threw, and neither the queries nor late timers took
\* time: the clock has advanced by the sleeps only
IdealUndecidedPoll ==
    /\ \A i \in 1..Len(obs) :
          obs[i] \in CIRCLE_TRANSACTION_STATES \ {"CONFIRMED", "FAILED"}
    /\ now - startTime = sleeps * pollInterval

\* C21: with a provider that always reports a non-terminal state and
\* queries that take no time, waitForTransaction(M, P), P > 0, raises the
\* timeout error at an elapsed time t with M <= t < M + P, after at least
\* ceil(M / P) - 1 queries, each followed by one sleep of P.
C21_TimeoutWithinOneInterval ==
    (/\ wpc = "done"
     /\ IsTimeoutError(result)
     /\ pollInterval > 0
     /\ IdealUndecidedPoll)
        => /\ maxWaitTime <= now - startTime
           /\ now - startTime < maxWaitTime + pollInterval
           /\ queries >= CeilDiv(maxWaitTime, pollInterval) - 1
           /\ sleeps = queries
           /\ now - startTime = queries * pollInterval

C21_Witness ==
    /\ wpc = "done"
    /\ IsTimeoutError(result)
    /\ maxWaitTime = 3
    /\ pollInterval = 1
    /\ obs = <<"QUEUED", "QUEUED", "QUEUED">>
    /\ sleeps = 3
    /\ now - startTime = 3

\* C22: a result waitForTransaction returns as CONFIRMED carries a txHash,
\* and so does every extraction and every mint result of
\* BlockchainService.
C22_ConfirmedCarriesTxHash ==
    /\ result.kind = "returned" => result.txHash # 0
    /\ bc.extracted => bc.txHash # 0

(***************************************************************************)
(* The request createWallet sends to the wallet provider.                  *)
(***************************************************************************)
\* part_003 createWallet(blockchains): client.createWallets({...})
CreateWalletsRequestA(blockchains) ==
    [count |-> 1, accountType |-> "SCA", blockchains |-> <<"ETH-SEPOLIA">>]

\* backend2 createWallet(blockchains): no accountType in the request
CreateWalletsRequestB(blockchains) ==
    [count |-> 1, accountType |-> "", blockchains |-> <<"BASE-SEPOLIA">>]

CreateWalletsRequest(blockchains) ==
    IF env.tree = "A" THEN CreateWalletsRequestA(blockchains)
                      ELSE CreateWalletsRequestB(blockchains)

\* the blockchains the caller passes to createWallet: mintNFT the chain it
\* mints on, POST /login its two, POST /wallet/create the request's
PassedBlockchains(rr) ==
    CASE rr.kind = "mint" -> <<rr.chain>>
      [] rr.kind = "wallet" -> rr.blockchains
      [] OTHER -> <<"ETH", "MATIC">>

\* C23: a create request to the wallet provider asks for one wallet, of
\* account type SCA, on the chain the caller passed.
C23_CreateRequestIsOneScaOnChain ==
    \A r \in Runs :
        run[r].calledCreate =>
            LET req == CreateWalletsRequest(PassedBlockchains(run[r]))
            IN /\ req.count = 1
               /\ req.accountType = "SCA"
               /\ req.blockchains = PassedBlockchains(run[r])

(***************************************************************************)
(* BlockchainService called again and again: each call is followed to its  *)
(* end, then the next may start.                                           *)
(***************************************************************************)
\* calls of BlockchainService that are followed
MaxChainCalls == 2

\* the call has ended; the service is called again
BcNextCall ==
    /\ bc.pc = "done"
    /\ sent.calls < MaxChainCalls
    /\ bc' = IdleChainMint
    /\ UNCHANGED <<pollVars, mintVars, notChain>>

NextResubmit ==
    \/ \E w \in BOOLEAN, net \in Networks : BcMintNFT(w, "valid", TRUE, net)
    \/ \E n \in 1..MaxBatch : BcBatchMintNFTs(n, n, TRUE, "BASE-SEPOLIA")
    \/ \E rejects \in BOOLEAN, remaining \in 0..MaxBatch :
          BcSupplyResponds(rejects, remaining)
    \/ \E ok \in BOOLEAN : BcEstimateResponds(ok)
    \/ \E f \in QueryFailures : BcSubmitRejected(f)
    \/ \E p \in 1..MaxPoll : BcSubmitAccepted(MaxWait, p)
    \/ LoopEnter
    \/ LoopTimeout
    \/ \E s \in {"QUEUED", "CONFIRMED", "FAILED"} : StatusReturns(s, 1, <<>>, 0)
    \/ \E f \in QueryFailures : StatusThrows(f, 0)
    \/ SleepDone(0)
    \/ BcPollEnds
    \/ \E k \in {"null", "receipt"} : BcReceiptResponds([kind |-> k, logs |-> <<>>])
    \/ BcNextCall

SpecResubmit == InitChain /\ [][NextResubmit]_vars

\* C24: a call of mintNFT or batchMintNFTs sends at most one
\* create-transaction request, whatever fails in the submission or in the
\* polling, and no two requests carry the same idempotency key.
C24_NothingIsResubmitted ==
    \A i, j \in 1..Len(sent.requests) :
        i # j => /\ sent.requests[i].call # sent.requests[j].call
                 /\ sent.requests[i].idempotencyKey # sent.requests[j].idempotencyKey

\* the second call polls on after a status query threw; the first call's
\* submission was rejected
C24_Witness ==
    /\ Len(sent.requests) = 2
    /\ sent.calls = 2
    /\ bc.pc = "poll"
    /\ wpc = "query"
    /\ obs = <<"ERROR", "QUEUED">>

\* C25: the batch is serial with a fixed delay between the items: at most
\* one mintNFT is in flight, and the mint of an item starts no earlier than
\* BATCH_DELAY after the mint of the item before it ended, whether that one
\* succeeded or failed.
C25_SerialWithFixedDelay ==
    /\ Len(batch.starts) - Len(batch.ends) \in {0, 1}
    /\ \A i \in 1..Len(batch.ends) :
          i + 1 <= Len(batch.starts) =>
              batch.starts[i + 1] >= batch.ends[i] + BATCH_DELAY

\* the place of the first NFTMinted log of the receipt
FirstMinted(logs) ==
    CHOOSE i \in 1..Len(logs) :
        /\ logs[i].name = "NFTMinted"
        /\ \A j \in 1..(i - 1) : logs[j].name # "NFTMinted"

\* C26: when the receipt has a log that decodes to NFTMinted, the token id
\* of the mint is the tokenId of the first such log, in decimal, whatever
\* undecodable logs and logs of other events are around it.
C26_FirstMintedEventGivesTokenId ==
    (/\ bc.pc = "done"
     /\ bc.success
     /\ bc.kind = "mint"
     /\ bc.receipt.kind = "receipt"
     /\ \E i \in 1..Len(bc.receipt.logs) : bc.receipt.logs[i].name = "NFTMinted")
        => bc.tokenId = ToString(bc.receipt.logs[FirstMinted(bc.receipt.logs)].tokenId)

C26_Witness ==
    /\ bc.pc = "done"
    /\ bc.kind = "mint"
    /\ bc.txHash # 0
    /\ bc.receipt.kind = "receipt"
    /\ bc.receipt.logs = <<[name |-> "undecodable", tokenId |-> 0, tokenIds |-> <<>>],
                           [name |-> "NFTMinted", tokenId |-> 2, tokenIds |-> <<>>]>>
    /\ bc.tokenId = "2"

\* C27: the walletAddress of a mint result is the recipient the request
\* submitted its transaction with, and the walletId it submitted with is
\* the id of that wallet (a wallet's address is modelled by its id).
C27_ResultNamesSubmittedWallet ==
    \A r \in Runs :
        (run[r].kind = "mint" /\ run[r].outcome = "returned") =>
            /\ run[r].res.walletAddress = run[r].txRecipient
            /\ run[r].txWallet = run[r].txRecipient

\* C28: no orphan wallets: once the requests for an email have ended, every
\* wallet the provider created for them has been attached to the user.
C28_NoOrphanWallets ==
    \A e \in Emails :
        (\A r \in Runs : ~(Active(r) /\ run[r].email = e))
            => createOK[e] = Cardinality(attachedIds[e])

(***************************************************************************)
(* rateLimitExpensive(maxRequests, windowMs): a sliding log of the         *)
(* admitted requests' timestamps for each key.                             *)
(***************************************************************************)
\* largest maxRequests and windowMs, last clock tick, requests followed
MaxRate == 2
MaxWindow == 2
MaxClock == 3
MaxHits == 4

\* userRequests.filter(timestamp => now - timestamp < windowMs)
ValidRequests(list, t, windowMs) == SelectSeq(list, LAMBDA ts : t - ts < windowMs)

OverLimitByOne(list, maxRequests) == Len(list) > maxRequests

\* userRequests.length >= maxRequests
OverLimit(list, maxRequests) == Len(list) >= maxRequests

\* requests.get(key) || []
RequestsOf(requests, key) == IF key \in DOMAIN requests THEN requests[key] ELSE <<>>

\* requests.set(key, list)
SetRequests(requests, key, list) ==
    [k \in DOMAIN requests \cup {key} |-> IF k = key THEN list ELSE requests[k]]

\* rateLimitExpensive(maxRequests, windowMs)
RateLimitExpensive(maxRequests, windowMs) ==
    /\ ~limiter.made
    /\ limiter' = [NoLimiter EXCEPT !.made = TRUE, !.maxRequests = maxRequests,
                                    !.windowMs = windowMs]
    /\ UNCHANGED <<pollVars, mintVars, notLimiter>>

\* the middleware handles a request of the key: the old timestamps are
\* dropped, then 429 or next()
LimiterRequest(key) ==
    /\ limiter.made
    /\ limiter.hits < MaxHits
    /\ LET t == limiter.clock
           cleaned == IF key \in DOMAIN limiter.requests
                        THEN SetRequests(limiter.requests, key,
                                 ValidRequests(limiter.requests[key], t, limiter.windowMs))
                        ELSE limiter.requests
           userRequests == RequestsOf(cleaned, key)
           before == Len(SelectSeq(limiter.admitted[key],
                                   LAMBDA ts : t - ts < limiter.windowMs))
       IN limiter' =
            IF OverLimit(userRequests, limiter.maxRequests)
              THEN [limiter EXCEPT !.requests = cleaned, !.hits = @ + 1,
                        !.last = [key |-> key, status |-> 429, before |-> before]]
              ELSE [limiter EXCEPT
                        !.requests = SetRequests(cleaned, key, Append(userRequests, t)),
                        !.hits = @ + 1,
                        !.admitted = [@ EXCEPT ![key] = Append(@, t)],
                        !.last = [key |-> key, status |-> 200, before |-> before]]
    /\ UNCHANGED <<pollVars, mintVars, notLimiter>>

\* a millisecond passes
LimiterTick ==
    /\ limiter.made
    /\ limiter.clock < MaxClock
    /\ limiter' = [limiter EXCEPT !.clock = @ + 1]
    /\ UNCHANGED <<pollVars, mintVars, notLimiter>>

InitLimiter == InitPoll /\ MintAtRest(PollOnly) /\ ExtAtRest

NextLimiter ==
    \/ \E m \in 0..MaxRate, w \in 0..MaxWindow : RateLimitExpensive(m, w)
    \/ \E k \in Keys : LimiterRequest(k)
    \/ LimiterTick

SpecLimiter == InitLimiter /\ [][NextLimiter]_vars

\* the requests of the key passed on with a timestamp in the window of
\* length w that ends at t
AdmittedWithin(k, t, w) ==
    {i \in 1..Len(limiter.admitted[k]) :
        t - limiter.admitted[k][i] < w /\ limiter.admitted[k][i] <= t}

\* C29: for each key at most maxRequests requests are passed on in any
\* window of windowMs; a request is passed on exactly when fewer than
\* maxRequests requests of its key were passed on within the last
\* windowMs, else answered 429; what the middleware keeps for a key are
\* timestamps of requests of that key it passed on.
C29_SlidingWindowLimit ==
    /\ \A k \in Keys, t \in 0..MaxClock :
          Cardinality(AdmittedWithin(k, t, limiter.windowMs)) <= limiter.maxRequests
    /\ limiter.last.status = 200 => limiter.last.before < limiter.maxRequests
    /\ limiter.last.status = 429 => limiter.last.before >= limiter.maxRequests
    /\ \A k \in DOMAIN limiter.requests :
          \E n \in 0..Len(limiter.admitted[k]) :
              limiter.requests[k] = SubSeq(limiter.admitted[k], n + 1, Len(limiter.admitted[k]))

\* limit 2 in a window of 2: two requests of a key passed at 0, and one
\* more at 2, when both have left the window
C29_Witness ==
    /\ limiter.maxRequests = 2
    /\ limiter.windowMs = 2
    /\ limiter.admitted["user-1"] = <<0, 0, 2>>
    /\ limiter.last = [key |-> "user-1", status |-> 200, before |-> 0]
    /\ limiter.clock = 2

\* C30: waitForTransaction has issued at least one status query when it
\* raises the timeout error.
C30_QueryBeforeTimeout ==
    (wpc = "done" /\ IsTimeoutError(result)) => queries >= 1

=============================================================================
